---- MODULE Spec2Model ----
(***************************************************************************)
(* The member-directory collection pipelines of the repository:            *)
(*   bacco_scraper.main, bacco_categorywise_scraper.main (HTML listings,   *)
(*   retrying fetch), basis_scraper.main, scraper.main (JSON listings with *)
(*   one detail fetch per record and category buckets) and main.main (JSON *)
(*   listing, no detail fetch).                                            *)
(* One behaviour of Spec is one run of one pipeline against one source.    *)
(***************************************************************************)
EXTENDS Integers, Sequences, FiniteSets, TLC

\* ------------------------------------------------------------------ bounds
\* Listing pages of the source that may hold records; every later page is empty.
MaxPages == 2
\* Records the source holds in total, over all its pages and categories.
MaxRecords == 2
\* Largest meta.last_page a JSON source reports.
MaxTotal == 2
\* How many entries of BUSINESS_CATEGORIES a run of the category-wise scraper visits.
NumCategories == 2

\* Longest field text given to the record functions, in characters.
MaxLen == 2
\* Most source fields one member block / JSON object may lack.
MaxMissing == 1

\* ------------------------------------------------------- program constants
\* max_retries of get_page_content.
max_retries == 3
\* total_pages = None: no page count known (a reported last_page is >= 1).
NoTotal == 0

BUSINESS_CATEGORIES ==
  << "Voice Services", "Data", "IT Support", "CMS Support", "Digital Marketing",
     "Graphic Design", "Accounting BPO", "Back office Support",
     "Website Design & Development", "Skill Development & IT Training",
     "Software Development", "Software Maintenance", "Legal Outsourcing",
     "HR Outsourcing", "Cloud Service Management", "AI Solutions",
     "Knowledge Process Outsourcing", "Research & Consultancy", "E-Commerce" >>

Pipelines ==
  {"bacco_scraper", "bacco_categorywise_scraper", "basis_scraper", "scraper", "main"}
\* get_page_content + parse_member_data
HtmlPipelines == {"bacco_scraper", "bacco_categorywise_scraper"}
\* get_member_list / get_paginated_data, meta.last_page
JsonPipelines == {"basis_scraper", "scraper", "main"}
\* get_company_profile per record, category_data buckets
DetailPipelines == {"basis_scraper", "scraper"}

\* The categories one run paginates: the fixed enumeration for the category-wise
\* scraper, a single listing for every other pipeline.
Categories(pl) ==
  IF pl = "bacco_categorywise_scraper" THEN 1..NumCategories ELSE {1}

\* ------------------------------------------------------- text as token lists
\* A string is a sequence of tokens; '/', ' ', '.xlsx' and '.csv' are tokens of
\* their own, so str.replace acts on whole tokens.
RECURSIVE Replace(_, _, _)
Replace(s, old, new) ==
  IF s = <<>> THEN <<>>
  ELSE <<IF Head(s) = old THEN new ELSE Head(s)>> \o Replace(Tail(s), old, new)

\* ---------------------------------------------------- text as character lists
\* The characters of a field text: a letter, line feed, carriage return, tab
\* and BEL (\x07, one of the characters the regular expression of
\* main.clean_text_for_excel removes; tab, LF and CR are not in its class).
Chars == {"a", "LF", "CR", "TAB", "BEL"}
Texts == UNION {[1..n -> Chars] : n \in 0..MaxLen}
ControlChars == {"LF", "CR", "TAB", "BEL"}
\* What str.strip() removes at both ends.
Whitespace == {" ", "LF", "CR", "TAB"}
\* The sentinel 'N/A' and the constant BASE_URL, one token each.
NA == <<"N/A">>
BASE_URL == <<"BASE_URL">>

\* text.replace('\r\n', ' ')
RECURSIVE ReplaceCRLF(_)
ReplaceCRLF(s) ==
  IF s = <<>> THEN <<>>
  ELSE IF Len(s) >= 2 /\ s[1] = "CR" /\ s[2] = "LF"
  THEN <<" ">> \o ReplaceCRLF(SubSeq(s, 3, Len(s)))
  ELSE <<Head(s)>> \o ReplaceCRLF(Tail(s))

\* basis_scraper.clean_text, and clean_text_for_excel of scraper and the bacco
\* scrapers: the three line-break replacements, nothing else.
clean_text(text) == Replace(Replace(ReplaceCRLF(text), "LF", " "), "CR", " ")

\* re.sub(r'[\x00-\x08\x0B\x0C\x0E-\x1F\x7F]', '', text)
RemoveControls(text) == SelectSeq(text, LAMBDA ch : ch # "BEL")

\* clean_text_for_excel of pipeline pl: main.py removes the characters of its
\* regular expression first.
clean_text_for_excel(pl, text) ==
  IF pl = "main" THEN clean_text(RemoveControls(text)) ELSE clean_text(text)

\* str.strip()
RECURSIVE LStrip(_)
LStrip(s) == IF s # <<>> /\ Head(s) \in Whitespace THEN LStrip(Tail(s)) ELSE s
RECURSIVE RStrip(_)
RStrip(s) ==
  IF s # <<>> /\ s[Len(s)] \in Whitespace THEN RStrip(SubSeq(s, 1, Len(s) - 1)) ELSE s
Strip(s) == RStrip(LStrip(s))

\* ", ".join(names)
RECURSIVE Join(_)
Join(names) ==
  IF names = <<>> THEN <<>>
  ELSE IF Len(names) = 1 THEN names[1]
  ELSE names[1] \o <<",", " ">> \o Join(Tail(names))

\* Service / business-activity names a detail payload may carry.
Label1 == <<"Web", " ", "Design">>
Label2 == <<"Reports", ".xlsx", "/", "Data">>
Labels == {Label1, Label2}

\* The 'services' / 'business_activity' lists of a detail payload.
ServiceLists == {<<>>, <<Label1>>, <<Label1, Label1>>, <<Label1, Label2>>}

\* What get_company_profile hands to process_member_data: None after a failed
\* request, a JSON object without 'member', or one whose member lists services.
ProfileNone == [status |-> "none", services |-> <<>>]
ProfileNoMember == [status |-> "nomember", services |-> <<>>]
ProfilePayloads ==
  {ProfileNoMember} \cup {[status |-> "member", services |-> s] : s \in ServiceLists}
\* A payload process_member_data cannot digest: its 'services' is null
\* (basis_scraper), an entry of its 'business_activity' has no 'activity' (scraper).
ProfileMalformed == [status |-> "malformed", services |-> <<>>]

VARIABLES
  pipeline,      \* which script runs
  srcPages,      \* source: category -> page -> number of records on that page
  srcTotal,      \* source: meta.last_page of every listing response, or NoTotal
  pc,            \* position of the control flow
  cat,           \* index into BUSINESS_CATEGORIES (1 in the other pipelines)
  current_page,  \* page / current_page
  total_pages,   \* total_pages (NoTotal while None)
  attempt,       \* loop variable of get_page_content
  idx,           \* position in the for loop over members / over category_data.items()
  members,       \* scrape_category: members of the current category
  all_members,   \* all_members
  category_data, \* category_data: insertion-ordered <<[key, members]>>
  exports,       \* the save calls made so far, in order
  crash,         \* "none", or the uncaught exception that ended the run
  pageFetches,   \* history: logical listing fetches started
  emptySeen,     \* history: the current pagination extracted an empty page
  aborted,       \* history: <<category, page>> of the listing fetches that failed
  failedDetail,  \* history: the members whose detail fetch failed
  lastFetch,     \* history: the logical fetch completed last
  gap,           \* history: what came last, a logical request or a rate-limit wait
  raisedAt,      \* history: <<category, page>> whose extraction or processing raised
  requests,      \* history: the logical requests issued so far, in order
  raw,           \* input of the record functions: one member block / member with its profile
  record,        \* output of the record functions: canonical field name -> text
  backoffs,      \* history: backoff waits of the logical listing fetch in progress or completed last
  pageWaits,     \* history: page-to-page rate-limit waits slept so far
  outcomes,      \* history: outcomes of the attempts of that logical listing fetch
  emptyBody      \* history: <<category, page>> of the listing fetches answered 2xx with a falsy body

vars ==
  << pipeline, srcPages, srcTotal, pc, cat, current_page, total_pages, attempt, idx,
     members, all_members, category_data, exports, crash, pageFetches, emptySeen,
     aborted, failedDetail, lastFetch, gap, raisedAt, requests, raw, record, backoffs,
     pageWaits, outcomes, emptyBody >>

\* ------------------------------------------------------------------ source
RECURSIVE SumPages(_, _)
SumPages(f, n) == IF n = 0 THEN 0 ELSE f[n] + SumPages(f, n - 1)

RECURSIVE SumCategories(_, _)
SumCategories(s, cs) ==
  IF cs = {} THEN 0
  ELSE LET c == CHOOSE x \in cs : TRUE
       IN  SumPages(s[c], MaxPages) + SumCategories(s, cs \ {c})

PageTables ==
  {f \in [1..MaxPages -> 0..MaxRecords] : SumPages(f, MaxPages) <= MaxRecords}

\* The listings a run may meet: per category, the number of records of each page.
Sources(pl) ==
  {s \in [Categories(pl) -> PageTables] : SumCategories(s, Categories(pl)) <= MaxRecords}

\* Number of member blocks / 'data' entries of page p of category c.
SrcCount(c, p) == IF p \in 1..MaxPages THEN srcPages[c][p] ELSE 0

\* The raw members of a page, in page order.
RawMembers(c, p) == [i \in 1..SrcCount(c, p) |-> [cat |-> c, page |-> p, idx |-> i]]

\* ------------------------------------------------------------- extraction
\* parse_member_data: one record per member block, no detail, no labels.
parse_member_data(c, p) ==
  [i \in 1..SrcCount(c, p) |->
     [id |-> RawMembers(c, p)[i], enriched |-> FALSE, labels |-> <<>>, category |-> ""]]

\* The markup a non-empty listing page may have: every member block as
\* parse_member_data expects it, or one whose details anchor has no href
\* (details_link['href'] raises KeyError).  A page without blocks has no such anchor.
PageMarkups(c, p) ==
  IF SrcCount(c, p) = 0 THEN {"wellformed"} ELSE {"wellformed", "malformed"}

\* A member of a listing page as process_member_data meets it: one whose
\* fields have the types the function expects, or one with a field it cannot
\* handle (a logo that is a number: BASE_URL + 5 raises TypeError).
MemberPayloads == {"wellformed", "malformed"}

\* Does process_member_data raise on this member and this profile?  The base
\* fields are built first, whatever the profile request came to.
ProcessingRaises(member_data, detailed_profile) ==
  member_data = "malformed" \/ detailed_profile.status = "malformed"

\* scrape_category: member['Business Category'] = category_name
TagCategory(page_members, category_name) ==
  [i \in DOMAIN page_members |-> [page_members[i] EXCEPT !.category = category_name]]

\* main.process_member_data: listing fields only.
process_member(member) ==
  [id |-> member, enriched |-> FALSE, labels |-> <<>>, category |-> ""]

\* basis_scraper / scraper process_member_data: base fields, plus the detail
\* fields and the service names when the profile has a 'member'.  Returns the
\* record and the categories it is to be filed under.
process_member_data(pl, member, detailed_profile) ==
  IF detailed_profile.status = "member"
  THEN [data |-> [id |-> member, enriched |-> TRUE,
                  labels |-> detailed_profile.services, category |-> ""],
        categories |-> detailed_profile.services]
  ELSE [data |-> [id |-> member, enriched |-> FALSE, labels |-> <<>>, category |-> ""],
        categories |-> <<>>]

\* ---------------------------------------------------- the fields of a record
\* What parse_member_data looks for in a member block: the logo <img> with its
\* alt and src, the media body, its <h5>, the 'Phone :' and 'Email :'
\* paragraphs, the website anchor and the details anchor.
BlockParts == {"img", "alt", "src", "body", "h5", "phone", "email", "website", "details"}

\* Keys of a member of the listing response.
ListingFields(pl) ==
  CASE pl = "basis_scraper" ->
         {"company_name", "membership_no", "membership_type", "establishment_month",
          "establishment_year", "logo", "short_profile"}
    [] pl = "scraper" ->
         {"company_name", "company_logo", "membership_no", "membership_type",
          "member_category", "establishment_month", "establishment_year", "FullUrl"}
    [] OTHER ->
         {"company_name", "company_logo", "membership_no", "membership_type",
          "member_category", "short_profile", "establishment_month",
          "establishment_year", "FullUrl"}

\* Keys of detailed_profile['member'].
ProfileFields(pl) ==
  CASE pl = "basis_scraper" ->
         {"address", "area", "postcode", "phone", "email", "website",
          "legal_structure", "valid_till", "services"}
    [] pl = "scraper" ->
         {"current_office_address", "current_office_postal_code", "work_phone",
          "emails", "legal_structure", "tin_number", "trade_license_no",
          "valid_till", "business_activity"}
    [] OTHER -> {}

SourceFields(pl) ==
  IF pl \in HtmlPipelines THEN BlockParts ELSE ListingFields(pl) \cup ProfileFields(pl)

\* The subsets of S with at most n elements.
RECURSIVE AtMost(_, _)
AtMost(S, n) ==
  IF n = 0 THEN {{}}
  ELSE AtMost(S, n - 1) \cup {T \cup {x} : T \in AtMost(S, n - 1), x \in S}

\* The inputs of the record functions of pipeline pl: which source fields are
\* missing, the text every other field holds, and what get_company_profile returned.
RawItems(pl) ==
  [pl : {pl}, missing : AtMost(SourceFields(pl), MaxMissing), text : Texts,
   profile : IF pl \in DetailPipelines THEN {"none", "nomember", "member"} ELSE {"none"}]

Has(r, part) == part \notin r.missing
\* dict.get(field, default) / tag.get(attribute, default)
Get(r, field, default) == IF field \in r.missing THEN default ELSE r.text

\* The dict parse_member_data builds for one member block (with the
\* 'Business Category' scrape_category adds): a key is set only where the
\* element was found.
block_member(r) ==
  LET img == Has(r, "img")
      body == Has(r, "body")
      c(t) == clean_text_for_excel(r.pl, t)
      keys == (IF img \/ (body /\ Has(r, "h5")) THEN {"Company Name"} ELSE {})
                \cup (IF img THEN {"Logo"} ELSE {})
                \cup (IF body /\ Has(r, "phone") THEN {"Phone"} ELSE {})
                \cup (IF body /\ Has(r, "email") THEN {"Email"} ELSE {})
                \cup (IF body /\ Has(r, "website") THEN {"Website"} ELSE {})
                \cup (IF body /\ Has(r, "details") THEN {"Details URL"} ELSE {})
                \cup (IF r.pl = "bacco_categorywise_scraper"
                      THEN {"Business Category"} ELSE {})
  IN  [k \in keys |->
         CASE k = "Company Name" ->
                IF body /\ Has(r, "h5") THEN c(Strip(r.text)) ELSE c(Get(r, "alt", NA))
           [] k = "Logo" -> c(Get(r, "src", NA))
           [] k \in {"Phone", "Email", "Website"} -> c(Strip(r.text))
           [] k = "Details URL" -> c(r.text)
           [] OTHER -> <<BUSINESS_CATEGORIES[1]>>]

\* BASE_URL + member.get(field, "") if member.get(field) else "N/A"
LogoUrl(r, field) ==
  IF Get(r, field, <<>>) # <<>> THEN BASE_URL \o Get(r, field, <<>>) ELSE NA

\* base_data of process_member_data: the fields of the listing member.
base_data(r) ==
  LET c(t) == clean_text_for_excel(r.pl, t)
      month(d) == Get(r, "establishment_month", d)
      year(d) == Get(r, "establishment_year", d)
  IN  CASE r.pl = "basis_scraper" ->
             [k \in {"Company Name", "Membership No", "Membership Type",
                     "Establishment", "Logo URL", "Short Profile"} |->
                CASE k = "Company Name" -> c(Get(r, "company_name", NA))
                  [] k = "Membership No" -> c(Get(r, "membership_no", NA))
                  [] k = "Membership Type" -> c(Get(r, "membership_type", NA))
                  [] k = "Establishment" ->
                       LET e == Strip(month(<<>>) \o <<" ">> \o year(<<>>))
                       IN  IF e = <<>> THEN NA ELSE e
                  [] k = "Logo URL" -> LogoUrl(r, "logo")
                  [] OTHER -> c(Get(r, "short_profile", NA))]
        [] r.pl = "scraper" ->
             [k \in {"Company Name", "Logo", "Membership No", "Membership Type",
                     "Member Category", "Establishment", "Website URL"} |->
                CASE k = "Company Name" -> c(Get(r, "company_name", NA))
                  [] k = "Logo" -> c(LogoUrl(r, "company_logo"))
                  [] k = "Membership No" -> c(Get(r, "membership_no", NA))
                  [] k = "Membership Type" -> c(Get(r, "membership_type", NA))
                  [] k = "Member Category" -> c(Get(r, "member_category", NA))
                  [] k = "Establishment" -> month(NA) \o <<" ">> \o year(NA)
                  [] OTHER -> c(Get(r, "FullUrl", NA))]
        [] OTHER ->
             [k \in {"Company Name", "Logo", "Membership No", "Membership Type",
                     "Member Category", "Short Profile", "Establishment",
                     "Website URL"} |->
                CASE k = "Company Name" -> c(Get(r, "company_name", NA))
                  [] k = "Logo" -> c(LogoUrl(r, "company_logo"))
                  [] k = "Membership No" -> c(Get(r, "membership_no", NA))
                  [] k = "Membership Type" -> c(Get(r, "membership_type", NA))
                  [] k = "Member Category" -> c(Get(r, "member_category", NA))
                  [] k = "Short Profile" -> c(Get(r, "short_profile", NA))
                  [] k = "Establishment" -> c(month(NA) \o <<" ">> \o year(NA))
                  [] OTHER -> c(Get(r, "FullUrl", NA))]

\* The names ", ".join(...) is given: the one service / activity of the
\* profile (basis_scraper skips a service whose name is empty).
Names(r, field) ==
  IF field \in r.missing \/ (r.pl = "basis_scraper" /\ r.text = <<>>)
  THEN <<>> ELSE <<r.text>>

\* The dict of base_data.update({...}): the fields of detailed_profile['member'].
\* (scraper: 'Email' is the 'email' of the first entry of 'emails'; the cleaning
\* function is applied to the list, which it returns unchanged.)
profile_data(r) ==
  LET c(t) == clean_text_for_excel(r.pl, t) IN
  IF r.pl = "basis_scraper"
  THEN [k \in {"Address", "Area", "Postcode", "Phone", "Email", "Company Website",
               "Legal Structure", "Valid Till", "Services"} |->
          CASE k = "Address" -> c(Get(r, "address", NA))
            [] k = "Area" -> c(Get(r, "area", NA))
            [] k = "Postcode" -> Get(r, "postcode", NA)
            [] k = "Phone" -> c(Get(r, "phone", NA))
            [] k = "Email" -> c(Get(r, "email", NA))
            [] k = "Company Website" -> c(Get(r, "website", NA))
            [] k = "Legal Structure" -> c(Get(r, "legal_structure", NA))
            [] k = "Valid Till" -> c(Get(r, "valid_till", NA))
            [] OTHER -> IF Names(r, "services") = <<>> THEN NA
                        ELSE Join(Names(r, "services"))]
  ELSE [k \in {"Office Address", "Postal Code", "Phone", "Email", "Legal Structure",
               "TIN Number", "Trade License No", "Valid Till",
               "Business Activities"} |->
          CASE k = "Office Address" -> c(Get(r, "current_office_address", NA))
            [] k = "Postal Code" -> Get(r, "current_office_postal_code", NA)
            [] k = "Phone" -> c(Get(r, "work_phone", NA))
            [] k = "Email" -> Get(r, "emails", NA)
            [] k = "Legal Structure" -> c(Get(r, "legal_structure", NA))
            [] k = "TIN Number" -> c(Get(r, "tin_number", NA))
            [] k = "Trade License No" -> c(Get(r, "trade_license_no", NA))
            [] k = "Valid Till" -> c(Get(r, "valid_till", NA))
            [] OTHER -> Join(Names(r, "business_activity"))]

\* dict.update
Update(a, b) ==
  [k \in DOMAIN a \cup DOMAIN b |-> IF k \in DOMAIN b THEN b[k] ELSE a[k]]

\* The dict process_member_data returns: base_data, updated with the profile
\* fields when the profile has a 'member'.
processed_data(r) ==
  IF r.pl \in DetailPipelines /\ r.profile = "member"
  THEN Update(base_data(r), profile_data(r))
  ELSE base_data(r)

\* ------------------------------------------------------------ aggregation
HasKey(cd, key) == \E i \in DOMAIN cd : cd[i].key = key

\* category_data[key].append(rec) on a defaultdict(list)
AppendTo(cd, key, rec) ==
  IF HasKey(cd, key)
  THEN [i \in DOMAIN cd |->
          IF cd[i].key = key THEN [cd[i] EXCEPT !.members = Append(@, rec)] ELSE cd[i]]
  ELSE Append(cd, [key |-> key, members |-> <<rec>>])

\* A categorization that stops after the first category of the record.
Categorize_FirstOnly(cd, rec, cats) ==
  IF cats = <<>> THEN cd ELSE AppendTo(cd, Head(cats), rec)

\* for category in categories: category_data[category].append(processed_data)
RECURSIVE Categorize(_, _, _)
Categorize(cd, rec, cats) ==
  IF cats = <<>> THEN cd
  ELSE Categorize(AppendTo(cd, Head(cats), rec), rec, Tail(cats))

\* The members filed under key (empty when the key was never inserted).
Bucket(key) ==
  IF HasKey(category_data, key)
  THEN (CHOOSE b \in {category_data[i] : i \in DOMAIN category_data} : b.key = key).members
  ELSE <<>>

\* ------------------------------------------------------------- pagination
\* Attempts one logical listing fetch may make: the retry loop of
\* get_page_content, a single request in get_member_list / get_paginated_data.
Attempts_Four(pl) == IF pl \in HtmlPipelines THEN max_retries + 1 ELSE 1

Attempts(pl) == IF pl \in HtmlPipelines THEN max_retries ELSE 1

\* total_pages = meta.get("last_page"), read once
ReadTotal(tp) == IF tp = NoTotal THEN srcTotal ELSE tp

\* if current_page >= total_pages: break   (None is not comparable: TypeError)
PageCheck(cp, tp) ==
  IF tp = NoTotal THEN "TypeError" ELSE IF cp >= tp THEN "break" ELSE "continue"

\* Where the control flow goes once the while loop is left.
AfterLoop(pl) == IF pl = "bacco_categorywise_scraper" THEN "save_category" ELSE "save_all"

\* Where the control flow goes after the page check.
AfterCheck(pl, cp, tp) ==
  CASE PageCheck(cp, tp) = "TypeError" -> "crashed"
    [] PageCheck(cp, tp) = "break" -> AfterLoop(pl)
    [] OTHER -> "page_sleep"

CrashOf(pl, cp, tp) == IF PageCheck(cp, tp) = "TypeError" THEN "TypeError" ELSE "none"

\* ------------------------------------------------------------------ export
\* What the environment lets succeed during one save call: DataFrame.to_excel,
\* writing the HTML preview, DataFrame.to_csv.  (Building the DataFrame from a
\* list of dicts is taken to succeed.)
SaveEnvs == [excel : BOOLEAN, html : BOOLEAN, csv : BOOLEAN]

DestAll == [kind |-> "all", key |-> <<>>]
DestCategory(key) == [kind |-> "category", key |-> key]

\* category_name.lower().replace(' ', '_'): a name derived from the category's.
CategorySlug(key) == <<"slug">> \o key

\* Path of the spreadsheet a destination is written to.
ExcelPath(pl, dest) ==
  CASE pl = "bacco_scraper" ->
         <<"bacco-data", "/", "bacco_members_", "timestamp", ".xlsx">>
    [] pl = "bacco_categorywise_scraper" /\ dest.kind = "all" ->
         <<"bacco-data", "/", "all_members_", "timestamp", ".xlsx">>
    [] pl = "bacco_categorywise_scraper" /\ dest.kind = "category" ->
         <<"bacco-data", "/", "categories", "/">>
           \o CategorySlug(dest.key) \o <<"_", "timestamp", ".xlsx">>
    [] pl = "basis_scraper" /\ dest.kind = "all" ->
         <<"basis-data", "/", "all_members", ".xlsx">>
    [] pl = "basis_scraper" /\ dest.kind = "category" ->
         <<"basis-data", "/", "service-categories", "/">>
           \o Replace(Replace(dest.key, "/", "_"), " ", "_") \o <<".xlsx">>
    [] pl = "scraper" /\ dest.kind = "all" ->
         <<"e-cab-data", "/", "all_members", ".xlsx">>
    [] pl = "scraper" /\ dest.kind = "category" ->
         <<"e-cab-data", "/", "categories", "/">>
           \o Replace(Replace(dest.key, "/", "_"), " ", "_") \o <<".xlsx">>
    [] OTHER ->
         <<"e-cab-data", "/", "e_cab_members", ".xlsx">>

\* Path of the delimited-text fallback: a name built beside the spreadsheet's
\* (bacco_scraper, main), filepath.replace('.xlsx', '.csv') elsewhere.
CsvPath(pl, path) ==
  IF pl \in {"bacco_scraper", "main"}
  THEN SubSeq(path, 1, Len(path) - 1) \o <<".csv">>
  ELSE Replace(path, ".xlsx", ".csv")

\* Is the fallback to_csv itself inside a try/except?
CsvGuarded(pl) == pl \in HtmlPipelines

\* The try/except of a save function:
\*   primary : "ok" | "write_err" (to_excel raised)
\*   html    : "ok" | "fail" | "skipped"   (main.save_data writes the preview
\*             inside the same try block, after the spreadsheet)
\*   fallback: "none" | "ok" | "fail"      (to_csv in the except branch)
\*   raised  : an exception left the save function
SaveResult(pl, env) ==
  LET primary == IF env.excel THEN "ok" ELSE "write_err"
      html == IF pl = "main" /\ primary = "ok"
              THEN (IF env.html THEN "ok" ELSE "fail") ELSE "skipped"
      caught == primary = "write_err" \/ html = "fail"
      fallback == IF ~caught THEN "none" ELSE IF env.csv THEN "ok" ELSE "fail"
      raised == fallback = "fail" /\ ~CsvGuarded(pl)
  IN  [primary |-> primary, html |-> html, fallback |-> fallback, raised |-> raised]

\* One call of the save function of pipeline pl for destination dest.
SaveCall(pl, dest, data, env) ==
  LET r == SaveResult(pl, env)
      path == ExcelPath(pl, dest)
  IN  [dest |-> dest, path |-> path, rows |-> data,
       primary |-> r.primary, html |-> r.html, fallback |-> r.fallback,
       fbpath |-> IF r.fallback = "none" THEN <<>> ELSE CsvPath(pl, path),
       raised |-> r.raised]

\* ------------------------------------------------------------------- state
\* No input, no record: the values of raw and record during a run of a pipeline.
NoRaw == [pl |-> "", missing |-> {}, text |-> <<>>, profile |-> "none"]
NoRecord == [k \in {"none"} |-> <<>>]

\* Entries of the request log: the listing request for a page, the profile
\* request for a member.
PageRequest(c, p) == [kind |-> "page", cat |-> c, page |-> p, idx |-> 0]
DetailRequest(member) ==
  [kind |-> "detail", cat |-> member.cat, page |-> member.page, idx |-> member.idx]

NoFetch == [kind |-> "none", attempts |-> 0, ok |-> TRUE]

Init ==
  /\ pipeline \in Pipelines
  /\ srcPages \in Sources(pipeline)
  /\ srcTotal \in (IF pipeline \in JsonPipelines THEN {NoTotal} \cup (1..MaxTotal) ELSE {NoTotal})
  /\ pc = "fetch"
  /\ cat = 1
  /\ current_page = 1
  /\ total_pages = NoTotal
  /\ attempt = 0
  /\ idx = 0
  /\ members = <<>>
  /\ all_members = <<>>
  /\ category_data = <<>>
  /\ exports = <<>>
  /\ crash = "none"
  /\ pageFetches = 0
  /\ emptySeen = FALSE
  /\ aborted = {}
  /\ failedDetail = {}
  /\ lastFetch = NoFetch
  /\ gap = "start"
  /\ raisedAt = {}
  /\ requests = <<>>
  /\ raw = NoRaw
  /\ record = NoRecord
  /\ backoffs = 0
  /\ pageWaits = 0
  /\ outcomes = <<>>
  /\ emptyBody = {}

source == << pipeline, srcPages, srcTotal >>

\* ----------------------------------------------------------------- fetching
\* What one requests.get of the listing page can come to: a 2xx response, an
\* exception of the connection, or a non-2xx status turned into an exception
\* by response.raise_for_status().  Both exceptions are RequestException.
FetchErrors == {"connection_error", "http_error"}

FetchOutcomes == {"ok"} \cup FetchErrors

\* The value a 2xx response hands to the caller: a text or JSON value that
\* holds something, or a falsy one ('', {}, []).
Bodies == {"content", "falsy"}

\* A get_page_content that gives up at once on a non-2xx status.
Attempt_StatusNotRetried(outcome) ==
  /\ pc = "fetch"
  /\ LET n == attempt + 1 IN
       /\ pageFetches' = IF attempt = 0 THEN pageFetches + 1 ELSE pageFetches
       /\ requests' = IF attempt = 0
                      THEN Append(requests, PageRequest(cat, current_page))
                      ELSE requests
       /\ backoffs' = IF attempt = 0 THEN 0 ELSE backoffs
       /\ IF outcome = "ok"
          THEN \* return response.text / response.json(); the caller tests the
               \* value: 'if not html: break', 'if not response: break'
               /\ \E body \in Bodies :
                    /\ pc' = IF body = "falsy" THEN AfterLoop(pipeline) ELSE "extract"
                    /\ emptyBody' = IF body = "falsy"
                                    THEN emptyBody \cup {<<cat, current_page>>}
                                    ELSE emptyBody
               /\ attempt' = 0
               /\ lastFetch' = [kind |-> "page", attempts |-> n, ok |-> TRUE]
               /\ aborted' = aborted
          ELSE IF n >= Attempts(pipeline) \/ outcome = "http_error"
          THEN \* return None; the caller leaves the while loop
               /\ pc' = AfterLoop(pipeline)
               /\ attempt' = 0
               /\ lastFetch' = [kind |-> "page", attempts |-> n, ok |-> FALSE]
               /\ aborted' = aborted \cup {<<cat, current_page>>}
               /\ emptyBody' = emptyBody
          ELSE /\ pc' = "backoff"
               /\ attempt' = attempt
               /\ lastFetch' = lastFetch
               /\ aborted' = aborted
               /\ emptyBody' = emptyBody
  /\ gap' = "request"
  /\ UNCHANGED << source, cat, current_page, total_pages, idx, members, all_members,
                  category_data, exports, crash, emptySeen, failedDetail, raisedAt, raw,
                  record, pageWaits >>

\* One pass of the try/except of get_page_content (retry loop) or of
\* get_member_list / get_paginated_data (single request) whose requests.get
\* comes to the given outcome.
Attempt(outcome) ==
  /\ pc = "fetch"
  /\ LET n == attempt + 1 IN
       /\ pageFetches' = IF attempt = 0 THEN pageFetches + 1 ELSE pageFetches
       /\ requests' = IF attempt = 0
                      THEN Append(requests, PageRequest(cat, current_page))
                      ELSE requests
       /\ backoffs' = IF attempt = 0 THEN 0 ELSE backoffs
       /\ IF outcome = "ok"
          THEN \* return response.text / response.json(); the caller tests the
               \* value: 'if not html: break', 'if not response: break'
               /\ \E body \in Bodies :
                    /\ pc' = IF body = "falsy" THEN AfterLoop(pipeline) ELSE "extract"
                    /\ emptyBody' = IF body = "falsy"
                                    THEN emptyBody \cup {<<cat, current_page>>}
                                    ELSE emptyBody
               /\ attempt' = 0
               /\ lastFetch' = [kind |-> "page", attempts |-> n, ok |-> TRUE]
               /\ aborted' = aborted
          ELSE IF n >= Attempts(pipeline)
          THEN \* return None; the caller leaves the while loop
               /\ pc' = AfterLoop(pipeline)
               /\ attempt' = 0
               /\ lastFetch' = [kind |-> "page", attempts |-> n, ok |-> FALSE]
               /\ aborted' = aborted \cup {<<cat, current_page>>}
               /\ emptyBody' = emptyBody
          ELSE /\ pc' = "backoff"
               /\ attempt' = attempt
               /\ lastFetch' = lastFetch
               /\ aborted' = aborted
               /\ emptyBody' = emptyBody
  /\ gap' = "request"
  /\ UNCHANGED << source, cat, current_page, total_pages, idx, members, all_members,
                  category_data, exports, crash, emptySeen, failedDetail, raisedAt, raw,
                  record, pageWaits >>

\* One requests.get of the listing page, with the outcome the source gives it.
FetchAttempt ==
  \E outcome \in FetchOutcomes :
    /\ Attempt(outcome)
    /\ outcomes' = IF attempt = 0 THEN << outcome >> ELSE Append(outcomes, outcome)

\* A retry loop that also sleeps the caller's page-to-page delay.
Backoff_AlsoRateLimits ==
  /\ pc = "backoff"
  /\ attempt' = attempt + 1
  /\ pc' = "fetch"
  /\ backoffs' = backoffs + 1
  /\ pageWaits' = pageWaits + 1 /\ gap' = "rate_wait"
  /\ UNCHANGED << source, cat, current_page, total_pages, idx, members, all_members,
                  category_data, exports, crash, pageFetches, emptySeen, aborted,
                  failedDetail, lastFetch, raisedAt, requests, raw, record, outcomes,
                  emptyBody >>

\* time.sleep(random.uniform(1, 2)) between two attempts of get_page_content
Backoff ==
  /\ pc = "backoff"
  /\ attempt' = attempt + 1
  /\ pc' = "fetch"
  /\ backoffs' = backoffs + 1
  /\ UNCHANGED << pageWaits, gap >>
  /\ UNCHANGED << source, cat, current_page, total_pages, idx, members, all_members,
                  category_data, exports, crash, pageFetches, emptySeen, aborted,
                  failedDetail, lastFetch, raisedAt, requests, raw, record, outcomes,
                  emptyBody >>

\* --------------------------------------------------------------- extraction
\* bacco_scraper.main: parse the page; stop on an empty one, otherwise extend.
ExtractBacco ==
  /\ pc = "extract" /\ pipeline = "bacco_scraper"
  /\ \E markup \in PageMarkups(cat, current_page) :
       LET page_members == parse_member_data(cat, current_page) IN
       IF markup = "malformed"
       THEN \* parse_member_data raises; nothing in main catches it
            /\ pc' = "crashed" /\ crash' = "ExtractionError"
            /\ raisedAt' = raisedAt \cup {<<cat, current_page>>}
            /\ UNCHANGED << emptySeen, all_members >>
       ELSE IF page_members = <<>>
       THEN /\ pc' = AfterLoop(pipeline) /\ emptySeen' = TRUE
            /\ UNCHANGED << all_members, crash, raisedAt >>
       ELSE /\ pc' = "page_sleep" /\ emptySeen' = emptySeen
            /\ all_members' = all_members \o page_members
            /\ UNCHANGED << crash, raisedAt >>
  /\ UNCHANGED << source, cat, current_page, total_pages, attempt, idx, members,
                  category_data, exports, pageFetches, aborted, failedDetail,
                  lastFetch, gap, requests, raw, record, backoffs, pageWaits, outcomes,
                  emptyBody >>

\* scrape_category: parse, stop on an empty page, otherwise tag and extend.
ExtractCategory ==
  /\ pc = "extract" /\ pipeline = "bacco_categorywise_scraper"
  /\ \E markup \in PageMarkups(cat, current_page) :
       LET page_members == parse_member_data(cat, current_page) IN
       IF markup = "malformed"
       THEN \* parse_member_data raises through scrape_category and main
            /\ pc' = "crashed" /\ crash' = "ExtractionError"
            /\ raisedAt' = raisedAt \cup {<<cat, current_page>>}
            /\ UNCHANGED << emptySeen, members >>
       ELSE IF page_members = <<>>
       THEN /\ pc' = AfterLoop(pipeline) /\ emptySeen' = TRUE
            /\ UNCHANGED << members, crash, raisedAt >>
       ELSE /\ pc' = "page_sleep" /\ emptySeen' = emptySeen
            /\ members' = members \o TagCategory(page_members, BUSINESS_CATEGORIES[cat])
            /\ UNCHANGED << crash, raisedAt >>
  /\ UNCHANGED << source, cat, current_page, total_pages, attempt, idx, all_members,
                  category_data, exports, pageFetches, aborted, failedDetail,
                  lastFetch, gap, requests, raw, record, backoffs, pageWaits, outcomes,
                  emptyBody >>

\* basis_scraper.main: stop on an empty 'data'; otherwise read last_page once
\* and start the loop over the members.
ExtractBasis ==
  /\ pc = "extract" /\ pipeline = "basis_scraper"
  /\ IF SrcCount(cat, current_page) = 0
     THEN /\ pc' = AfterLoop(pipeline) /\ emptySeen' = TRUE
          /\ UNCHANGED << total_pages, idx >>
     ELSE /\ pc' = "detail" /\ emptySeen' = emptySeen
          /\ total_pages' = ReadTotal(total_pages)
          /\ idx' = 1
  /\ UNCHANGED << source, cat, current_page, attempt, members, all_members,
                  category_data, exports, crash, pageFetches, aborted, failedDetail,
                  lastFetch, gap, raisedAt, requests, raw, record, backoffs, pageWaits,
                  outcomes, emptyBody >>

\* scraper.main: loop over 'data'; with no member the loop body never runs and
\* the page check follows at once.
ExtractScraper ==
  /\ pc = "extract" /\ pipeline = "scraper"
  /\ IF SrcCount(cat, current_page) = 0
     THEN /\ emptySeen' = TRUE
          /\ total_pages' = ReadTotal(total_pages)
          /\ pc' = AfterCheck(pipeline, current_page, total_pages')
          /\ crash' = CrashOf(pipeline, current_page, total_pages')
          /\ idx' = idx
     ELSE /\ pc' = "detail" /\ emptySeen' = emptySeen
          /\ idx' = 1
          /\ UNCHANGED << total_pages, crash >>
  /\ UNCHANGED << source, cat, current_page, attempt, members, all_members,
                  category_data, exports, pageFetches, aborted, failedDetail,
                  lastFetch, gap, raisedAt, requests, raw, record, backoffs, pageWaits,
                  outcomes, emptyBody >>

\* main.main: process every member of the page, read last_page once, check.
ExtractMain ==
  /\ pc = "extract" /\ pipeline = "main"
  /\ LET members_data == RawMembers(cat, current_page) IN
       \* raising = 0: every member is processed; raising = n: process_member_data
       \* raises on the n-th member (a company_logo that is no string)
       \E raising \in 0..Len(members_data) :
         IF raising > 0
         THEN /\ all_members' = all_members
                  \o [i \in 1..(raising - 1) |-> process_member(members_data[i])]
              /\ idx' = raising
              /\ pc' = "crashed" /\ crash' = "ExtractionError"
              /\ raisedAt' = raisedAt \cup {<<cat, current_page>>}
              /\ UNCHANGED << emptySeen, total_pages >>
         ELSE /\ all_members' = all_members
                  \o [i \in DOMAIN members_data |-> process_member(members_data[i])]
              /\ emptySeen' = (emptySeen \/ members_data = <<>>)
              /\ total_pages' = ReadTotal(total_pages)
              /\ pc' = AfterCheck(pipeline, current_page, total_pages')
              /\ crash' = CrashOf(pipeline, current_page, total_pages')
              /\ UNCHANGED << idx, raisedAt >>
  /\ UNCHANGED << source, cat, current_page, attempt, members, category_data,
                  exports, pageFetches, aborted, failedDetail, lastFetch, gap, requests,
                  raw, record, backoffs, pageWaits, outcomes, emptyBody >>

\* ---------------------------------------------------- detail and aggregation
\* An iteration that drops the member whose profile request failed.
DetailFetch_DropsUnenriched ==
  /\ pc = "detail"
  /\ \E member_data \in MemberPayloads,
        detailed_profile \in {ProfileNone, ProfileMalformed} \cup ProfilePayloads :
       LET member == RawMembers(cat, current_page)[idx]
           r == process_member_data(pipeline, member, detailed_profile)
       IN  /\ requests' = Append(requests, DetailRequest(member))
           /\ failedDetail' = IF detailed_profile = ProfileNone
                              THEN failedDetail \cup {member} ELSE failedDetail
           /\ lastFetch' = [kind |-> "detail", attempts |-> 1,
                            ok |-> detailed_profile # ProfileNone]
           /\ IF ProcessingRaises(member_data, detailed_profile)
              THEN \* process_member_data raises; nothing in main catches it
                   /\ pc' = "crashed" /\ crash' = "ExtractionError"
                   /\ raisedAt' = raisedAt \cup {<<cat, current_page>>}
                   /\ UNCHANGED << all_members, category_data >>
              ELSE /\ pc' = "member_sleep"
                   /\ all_members' = IF detailed_profile = ProfileNone THEN all_members
                          ELSE Append(all_members, r.data)
                   /\ category_data' = Categorize(category_data, r.data, r.categories)
                   /\ UNCHANGED << crash, raisedAt >>
  /\ gap' = "request"
  /\ UNCHANGED << source, cat, current_page, total_pages, attempt, idx, members,
                  exports, pageFetches, emptySeen, aborted, raw, record, backoffs,
                  pageWaits, outcomes, emptyBody >>

\* One iteration of 'for member in members': get_company_profile (a single
\* request; None on RequestException), process_member_data, all_members.append
\* and the appends to category_data.
DetailFetch ==
  /\ pc = "detail"
  /\ \E member_data \in MemberPayloads,
        detailed_profile \in {ProfileNone, ProfileMalformed} \cup ProfilePayloads :
       LET member == RawMembers(cat, current_page)[idx]
           r == process_member_data(pipeline, member, detailed_profile)
       IN  /\ requests' = Append(requests, DetailRequest(member))
           /\ failedDetail' = IF detailed_profile = ProfileNone
                              THEN failedDetail \cup {member} ELSE failedDetail
           /\ lastFetch' = [kind |-> "detail", attempts |-> 1,
                            ok |-> detailed_profile # ProfileNone]
           /\ IF ProcessingRaises(member_data, detailed_profile)
              THEN \* process_member_data raises; nothing in main catches it
                   /\ pc' = "crashed" /\ crash' = "ExtractionError"
                   /\ raisedAt' = raisedAt \cup {<<cat, current_page>>}
                   /\ UNCHANGED << all_members, category_data >>
              ELSE /\ pc' = "member_sleep"
                   /\ all_members' = Append(all_members, r.data)
                   /\ category_data' = Categorize(category_data, r.data, r.categories)
                   /\ UNCHANGED << crash, raisedAt >>
  /\ gap' = "request"
  /\ UNCHANGED << source, cat, current_page, total_pages, attempt, idx, members,
                  exports, pageFetches, emptySeen, aborted, raw, record, backoffs,
                  pageWaits, outcomes, emptyBody >>

\* A loop over the members that does not move on to the next member.
MemberSleep_SameMember ==
  /\ pc = "member_sleep"
  /\ IF idx < SrcCount(cat, current_page)
     THEN /\ idx' = idx
          /\ pc' = "detail"
          /\ UNCHANGED << total_pages, crash >>
     ELSE /\ idx' = idx
          /\ total_pages' = IF pipeline = "scraper" THEN ReadTotal(total_pages)
                            ELSE total_pages
          /\ pc' = AfterCheck(pipeline, current_page, total_pages')
          /\ crash' = CrashOf(pipeline, current_page, total_pages')
  /\ gap' = "rate_wait"
  /\ UNCHANGED << source, cat, current_page, attempt, members, all_members,
                  category_data, exports, pageFetches, emptySeen, aborted,
                  failedDetail, lastFetch, raisedAt, requests, raw, record, backoffs,
                  pageWaits, outcomes, emptyBody >>

\* time.sleep(random.uniform(1, 2)) closing the iteration; after the last member
\* of the page come (scraper.main) the reading of last_page and the page check.
MemberSleep ==
  /\ pc = "member_sleep"
  /\ IF idx < SrcCount(cat, current_page)
     THEN /\ idx' = idx + 1
          /\ pc' = "detail"
          /\ UNCHANGED << total_pages, crash >>
     ELSE /\ idx' = idx
          /\ total_pages' = IF pipeline = "scraper" THEN ReadTotal(total_pages)
                            ELSE total_pages
          /\ pc' = AfterCheck(pipeline, current_page, total_pages')
          /\ crash' = CrashOf(pipeline, current_page, total_pages')
  /\ gap' = "rate_wait"
  /\ UNCHANGED << source, cat, current_page, attempt, members, all_members,
                  category_data, exports, pageFetches, emptySeen, aborted,
                  failedDetail, lastFetch, raisedAt, requests, raw, record, backoffs,
                  pageWaits, outcomes, emptyBody >>

\* A cursor that moves on by two pages.
PageSleep_SkipsPage ==
  /\ pc = "page_sleep"
  /\ current_page' = current_page + 2
  /\ pc' = "fetch"
  /\ gap' = "rate_wait"
  /\ pageWaits' = pageWaits + 1
  /\ UNCHANGED << source, cat, total_pages, attempt, idx, members, all_members,
                  category_data, exports, crash, pageFetches, emptySeen, aborted,
                  failedDetail, lastFetch, raisedAt, requests, raw, record, backoffs,
                  outcomes, emptyBody >>

\* page += 1 and the delay between two listing pages
PageSleep ==
  /\ pc = "page_sleep"
  /\ current_page' = current_page + 1
  /\ pc' = "fetch"
  /\ gap' = "rate_wait"
  /\ pageWaits' = pageWaits + 1
  /\ UNCHANGED << source, cat, total_pages, attempt, idx, members, all_members,
                  category_data, exports, crash, pageFetches, emptySeen, aborted,
                  failedDetail, lastFetch, raisedAt, requests, raw, record, backoffs,
                  outcomes, emptyBody >>

\* ------------------------------------------------------------------- saving
\* End of scrape_category: save the category's members when there are any,
\* return them; main extends all_members and turns to the next category.
SaveCategory ==
  /\ pc = "save_category"
  /\ \E env \in SaveEnvs :
       LET e == SaveCall(pipeline, DestCategory(<<BUSINESS_CATEGORIES[cat]>>), members, env)
       IN  IF members = <<>>
           THEN /\ exports' = exports
                /\ crash' = crash
                /\ pc' = IF cat < NumCategories THEN "fetch" ELSE "save_all"
           ELSE /\ exports' = Append(exports, e)
                /\ crash' = IF e.raised THEN "ExportError" ELSE crash
                /\ pc' = IF e.raised THEN "crashed"
                         ELSE IF cat < NumCategories THEN "fetch" ELSE "save_all"
  /\ all_members' = all_members \o members
  /\ members' = <<>>
  /\ IF cat < NumCategories
     THEN /\ cat' = cat + 1 /\ current_page' = 1 /\ emptySeen' = FALSE
     ELSE UNCHANGED << cat, current_page, emptySeen >>
  /\ UNCHANGED << source, total_pages, attempt, idx, category_data, pageFetches,
                  aborted, failedDetail, lastFetch, gap, raisedAt, requests, raw,
                  record, backoffs, pageWaits, outcomes, emptyBody >>

\* Saving the complete dataset: always in the JSON pipelines, only when
\* all_members is non-empty in the bacco ones.
ExportAll ==
  /\ pc = "save_all"
  /\ IF pipeline \in HtmlPipelines /\ all_members = <<>>
     THEN /\ pc' = "done"
          /\ UNCHANGED << exports, crash, idx >>
     ELSE \E env \in SaveEnvs :
            LET e == SaveCall(pipeline, DestAll, all_members, env) IN
            /\ exports' = Append(exports, e)
            /\ crash' = IF e.raised THEN "ExportError" ELSE crash
            /\ pc' = IF e.raised THEN "crashed"
                     ELSE IF pipeline \in DetailPipelines /\ category_data # <<>>
                     THEN "save_categories" ELSE "done"
            /\ idx' = IF pc' = "save_categories" THEN 1 ELSE idx
  /\ UNCHANGED << source, cat, current_page, total_pages, attempt, members,
                  all_members, category_data, pageFetches, emptySeen, aborted,
                  failedDetail, lastFetch, gap, raisedAt, requests, raw, record,
                  backoffs, pageWaits, outcomes, emptyBody >>

\* One iteration of 'for category, members in category_data.items()'.
ExportCategory ==
  /\ pc = "save_categories"
  /\ \E env \in SaveEnvs :
       LET bucket == category_data[idx]
           e == SaveCall(pipeline, DestCategory(bucket.key), bucket.members, env)
       IN  /\ exports' = Append(exports, e)
           /\ crash' = IF e.raised THEN "ExportError" ELSE crash
           /\ pc' = IF e.raised THEN "crashed"
                    ELSE IF idx < Len(category_data) THEN "save_categories" ELSE "done"
           /\ idx' = IF pc' = "save_categories" THEN idx + 1 ELSE idx
  /\ UNCHANGED << source, cat, current_page, total_pages, attempt, members,
                  all_members, category_data, pageFetches, emptySeen, aborted,
                  failedDetail, lastFetch, gap, raisedAt, requests, raw, record,
                  backoffs, pageWaits, outcomes, emptyBody >>

Next ==
  \/ FetchAttempt
  \/ Backoff
  \/ ExtractBacco
  \/ ExtractCategory
  \/ ExtractBasis
  \/ ExtractScraper
  \/ ExtractMain
  \/ DetailFetch
  \/ MemberSleep
  \/ PageSleep
  \/ SaveCategory
  \/ ExportAll
  \/ ExportCategory

Spec == Init /\ [][Next]_vars

\* The scripts are sequential programs.  Against a source that answers every
\* request, with a response or with an error, each of their steps (a request,
\* a sleep, a write) returns: a run that can take a step takes it.
FairSpec == Spec /\ WF_vars(Next)

\* ------------------------------------------ the record functions on their own
\* A second specification: one member block or one member with its profile,
\* drawn from RawItems, and the record function of the pipeline applied to it.
InitRecords ==
  /\ pipeline \in Pipelines
  /\ srcPages = [c \in Categories(pipeline) |-> [p \in 1..MaxPages |-> 0]]
  /\ srcTotal = NoTotal
  /\ pc = "extract"
  /\ cat = 1
  /\ current_page = 1
  /\ total_pages = NoTotal
  /\ attempt = 0
  /\ idx = 0
  /\ members = <<>>
  /\ all_members = <<>>
  /\ category_data = <<>>
  /\ exports = <<>>
  /\ crash = "none"
  /\ pageFetches = 0
  /\ emptySeen = FALSE
  /\ aborted = {}
  /\ failedDetail = {}
  /\ lastFetch = NoFetch
  /\ gap = "start"
  /\ raisedAt = {}
  /\ requests = <<>>
  /\ backoffs = 0
  /\ pageWaits = 0
  /\ outcomes = <<>>
  /\ emptyBody = {}
  /\ raw \in RawItems(pipeline)
  /\ record = NoRecord

program ==
  << pc, cat, current_page, total_pages, attempt, idx, members, all_members,
     category_data, exports, crash, pageFetches, emptySeen, aborted, failedDetail,
     lastFetch, gap, raisedAt, requests, backoffs, pageWaits, outcomes,
     emptyBody >>

\* parse_member_data on one member block (bacco_scraper, scrape_category)
ParseMember ==
  /\ pipeline \in HtmlPipelines /\ record = NoRecord
  /\ record' = block_member(raw)
  /\ UNCHANGED << source, program, raw >>

\* process_member_data on one member (basis_scraper, scraper, main)
ProcessMember ==
  /\ pipeline \in JsonPipelines /\ record = NoRecord
  /\ record' = processed_data(raw)
  /\ UNCHANGED << source, program, raw >>

NextRecords ==
  \/ ParseMember
  \/ ProcessMember

SpecRecords == InitRecords /\ [][NextRecords]_vars

TypeOK ==
  /\ pc \in {"fetch", "backoff", "extract", "detail", "member_sleep", "page_sleep",
             "save_category", "save_all", "save_categories", "done", "crashed"}
  /\ attempt \in 0..(max_retries - 1)
  /\ crash \in {"none", "TypeError", "ExportError", "ExtractionError"}
  /\ (pc = "crashed") = (crash # "none")
  /\ backoffs \in 0..(max_retries - 1)
  /\ pageWaits \in 0..(NumCategories * (MaxPages + 1))
  /\ outcomes \in UNION {[1..n -> FetchOutcomes] : n \in 0..max_retries}

\* =================================================================== claims
Range(s) == {s[i] : i \in DOMAIN s}
Count(s, x) == Cardinality({i \in DOMAIN s : s[i] = x})
Ids(s) == [i \in DOMAIN s |-> s[i].id]
Min(a, b) == IF a <= b THEN a ELSE b

RunEnded == pc \in {"done", "crashed"}
LoopLeft == pc \in {"save_category", "save_all", "save_categories", "done", "crashed"}

\* The listing pages that handed the loop nothing to extract: the fetch failed
\* (None) or the 2xx response held a falsy body; the loop was left there.
Unread == aborted \cup emptyBody

\* Records gathered so far by the paginations of the run.
Gathered == Len(all_members) + Len(members)

\* The raw members of pages 1..n of category c, in source order.
RECURSIVE PagesUpTo(_, _)
PagesUpTo(c, n) == IF n = 0 THEN <<>> ELSE PagesUpTo(c, n - 1) \o RawMembers(c, n)

\* Index of the first page of the listing that holds no record.
PagesUntilEmpty == CHOOSE p \in 1..(MaxPages + 1) :
                     /\ SrcCount(1, p) = 0
                     /\ \A q \in 1..(p - 1) : SrcCount(1, q) > 0

OfCategory(c) == SelectSeq(all_members, LAMBDA r : r.id.cat = c)

Exported(dest, rows) ==
  \E i \in DOMAIN exports : exports[i].dest = dest /\ exports[i].rows = rows

\* C1 (as claimed): once a successfully fetched listing page has yielded no
\* record, the pagination fetches no further listing page and gathers no
\* further record, in every pipeline.
C1_EmptyPageEndsPagination ==
  [][emptySeen => (pageFetches' = pageFetches /\ Gathered' = Gathered)]_vars

\* C2 (as claimed): every completed logical fetch, listing or detail, that
\* failed made exactly 3 attempts, and no fetch makes more than 3.
C2_FailureOnlyAfterThreeAttempts ==
  /\ attempt < max_retries
  /\ lastFetch.kind # "none" =>
       /\ lastFetch.attempts <= max_retries
       /\ (~lastFetch.ok => lastFetch.attempts = max_retries)

\* C3 (as claimed): when a listing fetch failed at page p, the records of pages
\* 1..p-1 are all in the all-records list and, at the end of the run, the
\* all-records list (when it holds a record) and every non-empty bucket have
\* been exported with exactly their records: nothing gathered is discarded.
C3_PartialResultsExported ==
  (RunEnded /\ aborted # {}) =>
    /\ \A a \in aborted : Ids(OfCategory(a[1])) = PagesUpTo(a[1], a[2] - 1)
    /\ all_members # <<>> => Exported(DestAll, all_members)
    /\ \A j \in DOMAIN category_data :
         Exported(DestCategory(category_data[j].key), category_data[j].members)
    /\ pipeline = "bacco_categorywise_scraper" =>
         \A c \in 1..NumCategories :
           OfCategory(c) # <<>> =>
             Exported(DestCategory(<<BUSINESS_CATEGORIES[c]>>), OfCategory(c))

\* C4 (as claimed): with a reported total, no page fetch that failed or came
\* back with a falsy body and no page whose processing raises, the JSON pipelines make exactly
\* min(total, pages-until-empty) listing fetches.
C4_FetchCountIsMin ==
  (pipeline \in JsonPipelines /\ srcTotal # NoTotal /\ Unread = {} /\ raisedAt = {}
     /\ LoopLeft) =>
    pageFetches = Min(srcTotal, PagesUntilEmpty)

\* C5 (as claimed): when the first successful listing response reports no
\* total, the JSON pipelines do not end abnormally at the page check, and a
\* run that ended (no payload having made the processing raise) has exported
\* what it collected.
C5_UnknownTotalDoesNotCrash ==
  (pipeline \in JsonPipelines /\ srcTotal = NoTotal) =>
    /\ crash # "TypeError"
    /\ (RunEnded /\ raisedAt = {}) => Exported(DestAll, all_members)

\* Pages whose records a detail pipeline has processed once its loop is left:
\* up to the page whose fetch handed nothing over, else up to the page at
\* which the page check stops.
ProcessedPages ==
  IF Unread # {} THEN (CHOOSE a \in Unread : TRUE)[2] - 1
  ELSE IF srcTotal = NoTotal THEN 1
  ELSE IF pipeline = "basis_scraper" THEN Min(srcTotal, PagesUntilEmpty - 1)
  ELSE srcTotal

\* C6 (as claimed): a record whose detail fetch failed is in the all-records
\* list exactly once, with its listing fields only, and in no category bucket;
\* and the run goes on: when the page loop is left, every record of every
\* processed page, those after the failed one included, is in the all-records
\* list.
C6_DetailFailureKeepsRecord ==
  /\ \A m \in failedDetail :
       /\ Cardinality({i \in DOMAIN all_members : all_members[i].id = m}) = 1
       /\ \A i \in DOMAIN all_members :
            all_members[i].id = m =>
              ~all_members[i].enriched /\ all_members[i].labels = <<>>
       /\ \A j \in DOMAIN category_data :
            \A k \in DOMAIN category_data[j].members :
              category_data[j].members[k].id # m
  /\ (failedDetail # {} /\ LoopLeft) =>
       Ids(all_members) = PagesUpTo(1, ProcessedPages)

\* C7: a record with at least one category label is in exactly the buckets
\* named by its labels, and once in the all-records list.
C7_BucketsAreTheLabels ==
  \A i \in DOMAIN all_members :
    LET r == all_members[i] IN
    r.labels # <<>> =>
      /\ Count(all_members, r) = 1
      /\ \A l \in Range(r.labels) : r \in Range(Bucket(l))
      /\ \A j \in DOMAIN category_data :
           r \in Range(category_data[j].members) => category_data[j].key \in Range(r.labels)

\* A finished run with a record under two labels and another under one of them.
C7_Witness ==
  /\ pc = "done"
  /\ \E r, q \in Range(all_members) :
       /\ Range(r.labels) = {Label1, Label2}
       /\ q.labels = <<Label1>>
       /\ q \in Range(Bucket(Label1)) /\ q \notin Range(Bucket(Label2))

\* C8 (as claimed): a record is in a bucket once, however often its label
\* sequence repeats the label.
C8_OncePerDistinctLabel ==
  \A j \in DOMAIN category_data :
    \A r \in Range(category_data[j].members) : Count(category_data[j].members, r) = 1

\* C9 (as claimed): a destination whose spreadsheet write and fallback write
\* both fail does not end the run, and the remaining destinations are exported.
C9_DoubleFailureIsConfined ==
  (\E i \in DOMAIN exports :
      exports[i].primary = "write_err" /\ exports[i].fallback = "fail") =>
    /\ crash = "none"
    /\ pc = "done" =>
         \A j \in DOMAIN category_data :
           Exported(DestCategory(category_data[j].key), category_data[j].members)

\* The spreadsheet path with only its extension swapped.
SwapExtension(path) == SubSeq(path, 1, Len(path) - 1) \o <<".csv">>

\* The in-memory record list a destination is exported from.
RowsOf(dest) ==
  IF dest.kind = "category" /\ pipeline \in DetailPipelines THEN Bucket(dest.key)
  ELSE IF dest.kind = "category"
  THEN SelectSeq(all_members, LAMBDA r : <<r.category>> = dest.key)
  ELSE all_members

\* C10 (as claimed): whenever the spreadsheet write of a record set fails, a
\* delimited-text write of the same records is attempted at the path with the
\* same base name and the extension swapped; a successful one holds the rows
\* of the in-memory list.
C10_FallbackAtSameBaseName ==
  \A i \in DOMAIN exports :
    exports[i].primary = "write_err" =>
      /\ exports[i].fallback \in {"ok", "fail"}
      /\ exports[i].fbpath = SwapExtension(exports[i].path)
      /\ exports[i].fallback = "ok" => exports[i].rows = RowsOf(exports[i].dest)

\* A logical request is about to be issued: the first attempt of a listing
\* fetch, or a detail fetch.
RequestDue == pc = "detail" \/ (pc = "fetch" /\ attempt = 0)

\* C12 (as claimed): a logical request is never issued straight after another
\* one; a rate-limit wait (not a retry backoff) lies between the two, whether
\* they are two listing fetches, a listing fetch and the first detail fetch of
\* its page, two detail fetches, or the fetches of two successive categories.
C12_WaitBetweenRequests == RequestDue => gap # "request"

\* C11 (as claimed): a fallback artifact is written only for a save call whose
\* spreadsheet write failed; a call whose spreadsheet was written leaves no
\* delimited-text file, whatever happens afterwards inside the save function.
C11_FallbackOnlyAfterPrimaryFailure ==
  \A i \in DOMAIN exports :
    exports[i].fallback = "ok" => exports[i].primary = "write_err"

\* Number of save calls made for a destination.
ExportsFor(dest) == Cardinality({i \in DOMAIN exports : exports[i].dest = dest})

\* The pagination that feeds a destination is over: the whole page loop, or,
\* for a category file of the category-wise scraper, that category's loop.
PaginationEnded(dest) ==
  IF pipeline = "bacco_categorywise_scraper" /\ dest.kind = "category"
  THEN \E c \in 1..NumCategories :
         dest.key = <<BUSINESS_CATEGORIES[c]>> /\ (c < cat \/ LoopLeft)
  ELSE LoopLeft

\* C13 (as claimed): a save call is made only once the pagination feeding it is
\* over, never twice for one destination and never for an empty bucket; and at
\* the end of every run the all-records list (when it holds a record) and each
\* non-empty bucket have been exported exactly once.
C13_ExportOncePerRecordSet ==
  /\ \A i \in DOMAIN exports :
       /\ PaginationEnded(exports[i].dest)
       /\ ExportsFor(exports[i].dest) = 1
       /\ exports[i].dest.kind = "category" => exports[i].rows # <<>>
  /\ RunEnded =>
       /\ all_members # <<>> => ExportsFor(DestAll) = 1
       /\ \A j \in DOMAIN category_data :
            ExportsFor(DestCategory(category_data[j].key)) = 1
       /\ pipeline = "bacco_categorywise_scraper" =>
            \A c \in 1..NumCategories :
              OfCategory(c) # <<>> =>
                ExportsFor(DestCategory(<<BUSINESS_CATEGORIES[c]>>)) = 1

\* C14 (as claimed): bacco_scraper.main on a listing whose pages 1..k (k >= 1)
\* hold records and whose page k+1 holds none, every fetch succeeding and
\* handing back the page: the run ends with exactly the records of pages 1..k, after k + 1 listing fetches of which the
\* last one met the empty page, and makes one save call, for the all-records
\* list with one row per record; the file it writes holds those rows.
C14_BaccoScenario ==
  (pipeline = "bacco_scraper" /\ Unread = {} /\ PagesUntilEmpty > 1
     /\ RunEnded) =>
    LET k == PagesUntilEmpty - 1 IN
    /\ pc = "done"
    /\ Ids(all_members) = PagesUpTo(1, k)
    /\ Len(all_members) = SumPages(srcPages[1], k)
    /\ pageFetches = k + 1
    /\ current_page = k + 1 /\ emptySeen
    /\ Len(exports) = 1
    /\ exports[1].dest = DestAll
    /\ Len(exports[1].rows) = SumPages(srcPages[1], k)
    /\ exports[1].rows = all_members

\* ---- what a run has processed, told from where its control flow stands
\* First page of category c that holds no record.
FirstEmpty(c) == CHOOSE p \in 1..(MaxPages + 1) :
                   /\ SrcCount(c, p) = 0
                   /\ \A q \in 1..(p - 1) : SrcCount(c, q) > 0

\* Page at which the pagination of a finished category stopped.
StopPage(c) ==
  IF \E a \in Unread : a[1] = c
  THEN (CHOOSE a \in Unread : a[1] = c)[2]
  ELSE FirstEmpty(c)

\* The raw members of categories 1..n of the category-wise scraper.
RECURSIVE CollectedUpTo(_)
CollectedUpTo(n) ==
  IF n = 0 THEN <<>> ELSE CollectedUpTo(n - 1) \o PagesUpTo(n, StopPage(n) - 1)

\* Pages of the current pagination whose records are all processed.
FullPages ==
  IF pc = "page_sleep" THEN current_page
  ELSE IF LoopLeft /\ <<cat, current_page>> \notin Unread \cup raisedAt THEN current_page
  ELSE current_page - 1

\* Records of the current page processed by a loop over the members still running.
PartialPage ==
  IF pc = "detail" THEN idx - 1
  ELSE IF pc = "member_sleep" THEN idx
  ELSE IF raisedAt # {} /\ pipeline \in JsonPipelines THEN idx - 1
  ELSE 0

\* The raw members processed by the current pagination.
ProcessedHere ==
  PagesUpTo(cat, FullPages) \o SubSeq(RawMembers(cat, current_page), 1, PartialPage)

\* The raw members whose records all_members is due to hold: every processed
\* one; in the category-wise scraper those of the categories already returned.
ExpectedAll ==
  IF pipeline # "bacco_categorywise_scraper" THEN ProcessedHere
  ELSE IF pc \in {"save_all", "done"} THEN CollectedUpTo(cat)
  ELSE CollectedUpTo(cat - 1)

\* The raw members due in the list scrape_category is building.
ExpectedMembers ==
  IF pipeline = "bacco_categorywise_scraper" /\ pc \notin {"save_all", "done"}
  THEN ProcessedHere ELSE <<>>

\* C15: at every point of a run the all-records list has one entry per record
\* processed so far (in the category-wise scraper: per record of the categories
\* returned so far, the running category's list holding the others), and every
\* entry of every category bucket is an entry of the all-records list.
C15_OneEntryPerProcessedRecord ==
  /\ Len(all_members) = Len(ExpectedAll)
  /\ Len(members) = Len(ExpectedMembers)
  /\ \A j \in DOMAIN category_data :
       Range(category_data[j].members) \subseteq Range(all_members)

\* In the middle of the second page of a detail pipeline: two records
\* processed, the second of them filed in a bucket.
C15_Witness ==
  /\ pipeline \in DetailPipelines /\ pc = "member_sleep" /\ current_page = 2
  /\ Len(all_members) = 2
  /\ \E j \in DOMAIN category_data :
       all_members[2] \in Range(category_data[j].members)

\* Source order: by category of the enumeration, then page, then position.
Before(m, n) ==
  \/ m.cat < n.cat
  \/ m.cat = n.cat /\ m.page < n.page
  \/ m.cat = n.cat /\ m.page = n.page /\ m.idx < n.idx

\* a is b with some entries left out.
RECURSIVE IsSubSeq(_, _)
IsSubSeq(a, b) ==
  IF a = <<>> THEN TRUE
  ELSE IF b = <<>> THEN FALSE
  ELSE IF Head(a) = Head(b) THEN IsSubSeq(Tail(a), Tail(b))
  ELSE IsSubSeq(a, Tail(b))

\* C16 (as claimed): the all-records list is in source order, by page and
\* within a page by position, and the records of every category bucket, in the
\* order of their insertion, form a subsequence of the all-records list.
C16_SourceOrderKept ==
  /\ \A i, j \in DOMAIN all_members :
       i < j => Before(all_members[i].id, all_members[j].id)
  /\ \A j \in DOMAIN category_data : IsSubSeq(category_data[j].members, all_members)

\* C17 (as claimed): when the extraction of a fetched page, or the processing
\* of one of its records, raises, the run goes on as after a failed listing
\* fetch: it does not end abnormally, and once it has ended the records
\* gathered before are exported.
C17_ExtractionErrorIsPageFailure ==
  raisedAt # {} =>
    /\ crash = "none"
    /\ RunEnded => (Gathered > 0 => Exported(DestAll, all_members))

\* ---- the request log
PageIdx == {i \in DOMAIN requests : requests[i].kind = "page"}

\* Position of the listing request following the one at j (past the end if none).
NextPage(j) ==
  IF \E k \in PageIdx : k > j
  THEN CHOOSE k \in PageIdx : k > j /\ \A l \in PageIdx : l > j => k <= l
  ELSE Len(requests) + 1

MembersOf(reqs) ==
  [i \in DOMAIN reqs |-> [cat |-> reqs[i].cat, page |-> reqs[i].page, idx |-> reqs[i].idx]]

\* The members whose profile was requested between the listing request at j
\* and the next listing request.
DetailsAfter(j) == MembersOf(SubSeq(requests, j + 1, NextPage(j) - 1))

\* The members whose profile was requested, in request order.
DetailMembers == MembersOf(SelectSeq(requests, LAMBDA q : q.kind = "detail"))

IsPrefix(a, b) == Len(a) <= Len(b) /\ a = SubSeq(b, 1, Len(a))

\* C20: in the detail pipelines the requests come one after the other in a
\* fixed order: a run starts with a listing request; the profile requests
\* issued after the listing request for page p and before the next listing
\* request are those of the records of page p, one each, in page order, all of
\* them before the next listing request is issued (and before the loop is
\* left, unless the page's fetch failed or a payload made the processing
\* raise); and
\* a record is in the all-records list only once its own profile request was made.
C20_DetailFetchesInSequence ==
  pipeline \in DetailPipelines =>
    /\ requests # <<>> => requests[1].kind = "page"
    /\ \A j, k \in PageIdx : j < k => requests[j].page < requests[k].page
    /\ \A j \in PageIdx :
         LET page == RawMembers(requests[j].cat, requests[j].page) IN
         /\ IsPrefix(DetailsAfter(j), page)
         /\ NextPage(j) <= Len(requests) => DetailsAfter(j) = page
         /\ (LoopLeft /\ raisedAt = {} /\ <<requests[j].cat, requests[j].page>> \notin Unread)
              => DetailsAfter(j) = page
    /\ IsPrefix(Ids(all_members), DetailMembers)
    /\ Len(DetailMembers) <= Len(all_members) + (IF raisedAt = {} THEN 0 ELSE 1)

\* A finished run of a detail pipeline over two pages of one record each:
\* listing, profile, listing, profile.
C20_Witness ==
  /\ pipeline \in DetailPipelines /\ pc = "done"
  /\ Len(requests) = 4
  /\ requests[2].kind = "detail" /\ requests[3].kind = "page"
  /\ requests[4] = DetailRequest(all_members[2].id)

\* ---- the record functions
\* The input held every source field, and the profile its 'member'.
CompleteRaw(pl) == [pl |-> pl, missing |-> {}, text |-> <<"a">>, profile |-> "member"]

\* The canonical fields of a pipeline: those of the record made from a payload
\* that lacks nothing.
CanonicalKeys(pl) ==
  IF pl \in HtmlPipelines THEN DOMAIN block_member(CompleteRaw(pl))
  ELSE DOMAIN processed_data(CompleteRaw(pl))

\* C18 (as claimed): every record made by parse_member_data, and by
\* process_member_data when the profile was fetched, has every canonical field
\* of its pipeline as a key, whatever the payload lacks; all records of a run
\* have that one key set.
C18_EveryCanonicalField ==
  (record # NoRecord /\ (pipeline \in DetailPipelines => raw.profile = "member")) =>
    DOMAIN record = CanonicalKeys(pipeline)

\* C19 (as claimed): no text field of a record holds a control character or a
\* line break, in any pipeline, composed fields included.
C19_TextFieldsSanitized ==
  record # NoRecord =>
    \A k \in DOMAIN record :
      \A i \in DOMAIN record[k] : record[k][i] \notin ControlChars

\* The pages the listing requests of category c asked for, in request order.
PagesRequested(c) ==
  LET reqs == SelectSeq(requests, LAMBDA q : q.kind = "page" /\ q.cat = c)
  IN  [i \in DOMAIN reqs |-> reqs[i].page]

\* Every pagination asked for pages 1, 2, 3, ... in that order, each once.
CursorCountsUp ==
  \A c \in Categories(pipeline) :
    \A i \in DOMAIN PagesRequested(c) : PagesRequested(c)[i] = i

\* Within one pagination the cursor stays or moves on by one, and it moves
\* only after a page that was fetched and did not end the loop.
CursorStep ==
  cat' = cat =>
    /\ current_page' \in {current_page, current_page + 1}
    /\ current_page' = current_page + 1 =>
         pc = "page_sleep" /\ <<cat, current_page>> \notin Unread

\* C21: the listing requests of one pagination ask for pages 1, 2, 3, ...: the
\* cursor starts at 1, moves on by exactly one after each fetched page that
\* does not end the loop, never goes back, skips no page and asks for no page
\* twice; and total_pages, once read, is never changed.
C21_CursorSequence ==
  /\ current_page = 1
  /\ [](CursorCountsUp /\ current_page >= 1)
  /\ [][CursorStep /\ (total_pages # NoTotal => total_pages' = total_pages)]_vars

\* A finished run of a JSON pipeline that asked for pages 1 and 2 knowing the
\* total from the first page on.
C21_Witness ==
  /\ pipeline \in JsonPipelines /\ pc = "done"
  /\ PagesRequested(1) = <<1, 2>>
  /\ total_pages = 2

\* C22 (as claimed): a run against a source that runs out of pages, fails or
\* reports a finite total ends its pagination and finishes its export (unless
\* a payload makes the processing raise or a destination cannot be written at
\* all); and a logical fetch of get_page_content never goes beyond its third
\* attempt.
C22_RunTerminates ==
  /\ [](attempt < max_retries)
  /\ <>(pc = "done" \/ raisedAt # {} \/ crash = "ExportError")

\* A logical listing fetch is in progress: it has made an attempt and has
\* another one to make.
Retrying == pc = "backoff" \/ (pc = "fetch" /\ attempt > 0)

\* C23: get_page_content waits (backoff) after a failed attempt only when
\* another attempt follows: once after the first failure and once after the
\* second, never after the third failure and never after a success.  So a
\* logical fetch waits at most twice, and once it has returned its waits are
\* its attempts minus one.
C23_BackoffOnlyBeforeRetry ==
  /\ backoffs <= 2
  /\ Len(outcomes) <= max_retries
  /\ \A i \in DOMAIN outcomes : outcomes[i] = "ok" => i = Len(outcomes)
  /\ pc = "backoff" =>
       /\ outcomes[Len(outcomes)] \in FetchErrors
       /\ Len(outcomes) < max_retries
       /\ backoffs = Len(outcomes) - 1
  /\ pc = "fetch" /\ attempt > 0 => backoffs = Len(outcomes) /\ backoffs = attempt
  /\ ~Retrying /\ outcomes # <<>> => backoffs = Len(outcomes) - 1

\* A logical fetch of an HTML pipeline that gave up after three failed
\* attempts and two waits.
C23_Witness ==
  /\ pipeline \in HtmlPipelines
  /\ ~Retrying /\ pc # "fetch"
  /\ Len(outcomes) = max_retries
  /\ \A i \in DOMAIN outcomes : outcomes[i] \in FetchErrors
  /\ backoffs = 2

\* The pages after which the caller went on to another page of the same
\* pagination: those whose successor was requested, and the one the cursor
\* has just left.
FollowedPages ==
  {cp \in Categories(pipeline) \X (1..(MaxPages + 1)) :
     \/ cp[2] + 1 \in Range(PagesRequested(cp[1]))
     \/ /\ pc = "fetch" /\ attempt = 0
        /\ cp[1] = cat /\ cp[2] + 1 = current_page
        /\ current_page \notin Range(PagesRequested(cat))}

\* No step of a logical fetch in progress is or follows a rate-limit wait.
NoRateWaitInRetries ==
  /\ Retrying => gap = "request"
  /\ Retrying \/ Retrying' => pageWaits' = pageWaits /\ gap' # "rate_wait"

\* C24: the rate-limit wait belongs to the caller, not to the retry loop:
\* while one logical fetch retries, only backoff waits happen; and the caller
\* sleeps exactly one page-to-page wait for each page it goes on from, however
\* many attempts that page's fetch took.  In the bacco scripts the pages gone
\* on from are exactly the fetched, non-empty ones.
C24_RateLimitBetweenLogicalFetches ==
  /\ [](pageWaits = Cardinality(FollowedPages))
  /\ [](pipeline \in HtmlPipelines =>
          \A cp \in FollowedPages : cp \notin Unread /\ SrcCount(cp[1], cp[2]) > 0)
  /\ [][NoRateWaitInRetries]_vars

\* bacco: page 1 came at the third attempt, after two backoff waits, and the
\* caller has slept one rate-limit wait before asking for page 2.
C24_Witness ==
  /\ pipeline \in HtmlPipelines
  /\ pc = "fetch" /\ attempt = 0 /\ current_page = 2
  /\ outcomes = << "connection_error", "http_error", "ok" >>
  /\ backoffs = 2
  /\ pageWaits = 1
  /\ gap = "rate_wait"

\* A step that handles a failed attempt of the one kind is also the step that
\* handles a failed attempt of the other kind: the two change the program's
\* state in the same way.
SameHandling ==
  \A e1, e2 \in FetchErrors : Attempt(e1) <=> Attempt(e2)

\* Attempts, waits and result of the logical fetch that returned last depend
\* on the positions of its failures only, not on their kinds.
ResultFromPattern ==
  ~Retrying /\ lastFetch.kind = "page" =>
    /\ lastFetch.attempts = Len(outcomes)
    /\ lastFetch.ok = (outcomes[Len(outcomes)] = "ok")
    /\ ~lastFetch.ok => Len(outcomes) = Attempts(pipeline)
    /\ backoffs = Len(outcomes) - 1

\* C25: a non-2xx status is handled as a connection error is: both are
\* RequestException, so exchanging the one for the other in the outcomes of a
\* logical fetch changes neither its attempts, nor its waits, nor its result.
C25_StatusRetriedAsConnectionError ==
  /\ []ResultFromPattern
  /\ [][SameHandling]_vars

\* A logical fetch that met both kinds of failure and gave up after the third
\* attempt and two waits.
C25_Witness ==
  /\ outcomes = << "http_error", "connection_error", "http_error" >>
  /\ lastFetch = [kind |-> "page", attempts |-> 3, ok |-> FALSE]
  /\ backoffs = 2
  /\ ~Retrying

\* The categories of the listing requests, in request order.
CategoriesRequested == [i \in DOMAIN requests |-> requests[i].cat]

\* The listing requests go through the categories in enumeration order: they
\* start with the first one and go from a category to the next one only.
InEnumerationOrder ==
  /\ requests # <<>> => CategoriesRequested[1] = 1
  /\ \A i \in 1..(Len(requests) - 1) :
       CategoriesRequested[i + 1] \in {CategoriesRequested[i], CategoriesRequested[i] + 1}

\* Every record carries the name of the category whose listing held it.
TaggedWithOwnCategory ==
  /\ \A i \in DOMAIN all_members :
       all_members[i].category = BUSINESS_CATEGORIES[all_members[i].id.cat]
  /\ \A i \in DOMAIN members :
       /\ members[i].id.cat = cat
       /\ members[i].category = BUSINESS_CATEGORIES[cat]

\* Categories whose scrape_category has returned.
Returned == IF pc \in {"save_all", "done"} THEN cat ELSE cat - 1

RECURSIVE SumOfCategories(_)
SumOfCategories(n) ==
  IF n = 0 THEN 0 ELSE SumOfCategories(n - 1) + Len(PagesUpTo(n, StopPage(n) - 1))

\* all_members is the per-category lists of the returned categories, one after
\* the other.
ConcatenationOfCategories ==
  /\ Ids(all_members) = CollectedUpTo(Returned)
  /\ Len(all_members) = SumOfCategories(Returned)

\* C26 (as claimed): bacco_categorywise_scraper.main paginates every category
\* of BUSINESS_CATEGORIES, in enumeration order and each from page 1, however
\* the earlier categories ended; every record is tagged with the category
\* whose listing held it; and all_members is the concatenation, in category
\* order, of the per-category lists.
C26_EveryCategoryPaginated ==
  pipeline = "bacco_categorywise_scraper" =>
    /\ RunEnded => \A c \in 1..NumCategories : PagesRequested(c) # <<>>
    /\ InEnumerationOrder /\ CursorCountsUp
    /\ TaggedWithOwnCategory
    /\ pc # "crashed" => ConcatenationOfCategories

====
